---------------------------- MODULE Spec2Model ----------------------------
(***************************************************************************)
(* A model of the telegram-claude-bridge browser extension.                *)
(*                                                                         *)
(*   - the relay (extension/background.js): one WebSocket to the bridge    *)
(*     server, exponential-backoff reconnection, keepalive alarm, the      *)
(*     port to the content script;                                         *)
(*   - the pipeline (content.js, listed in README.md): messageQueue,       *)
(*     processQueue, processMessage, attachFile, injectText, clickSend;    *)
(*   - the speech engine (content.js, TTS object).                         *)
(*                                                                         *)
(* Every handler of the source is one action; a handler that awaits a      *)
(* timer is cut at each awaited sleep, the only points where another       *)
(* handler can run.                                                        *)
(***************************************************************************)
EXTENDS Integers, Sequences, FiniteSets, TLC

(***************************************************************************)
(* Bounds of the model.                                                    *)
(***************************************************************************)
MaxSockets == 2
MaxTimers == 2
MaxAttempts == 5
MaxPorts == 2
MaxEnvelopes == 2
MaxTurns == 2
MaxText == 2
MaxExtra == 1
MaxPending == 3
MaxCount == 2
MaxItems == 3
MaxFlushes == 2
MaxInputs == 2
MaxInits == 1
MaxSpoken == 4

(***************************************************************************)
(* Program constants: CONFIG of background.js.                             *)
(***************************************************************************)
reconnectDelay == 3000
maxReconnectDelay == 30000

(***************************************************************************)
(* Program constants: CONFIG of content.js and the literal sleeps.         *)
(***************************************************************************)
messageDelay == 500
attachmentDelay == 2000
interMessageDelay == 300
dragDelay == 50
attachSettleDelay == 200

VARIABLES
    \* ---- relay (background.js) ----
    ws,                 \* let ws: 0 is null, else a socket identity
    sockets,            \* the WebSocket objects: readyState and whether
                        \* onclose/onerror are still attached
    reconnectAttempts,  \* let reconnectAttempts
    timers,             \* pending setTimeout(connect, delay): their delays
    serverUrlOk,        \* CONFIG.serverUrl is accepted by new WebSocket()
    started,            \* the chrome.storage.sync.get callback has run
    badge,              \* the status shown by updateBadge
    contentScriptPort,  \* let contentScriptPort: 0 is null, else a port
    ports,              \* the ports of content scripts
    \* ---- relay, history of the last handler ----
    ev,                 \* the event the last handler served
    fx,                 \* what that handler did, in order
    failures,           \* connection failures since the last open/reconnect()
    owed,               \* a drop happened and no attempt was made since
    attemptNo,          \* parity of the number of new WebSocket() calls
    \* ---- pipeline (content.js) ----
    messageQueue,       \* const messageQueue
    isProcessing,       \* let isProcessing
    workers,            \* the suspended processQueue() calls: where each
                        \* sleeps, its message, what it did for it, what
                        \* the input held before and after its injectText
    autoSend,           \* CONFIG.autoSend
    arrived,            \* number of envelopes pushed so far
    dequeued,           \* the envelopes shifted off the queue, in order
    pendingAttachments, \* const pendingAttachments
    last,               \* history: the processQueue() call's record of the
                        \* envelope before the current one, if any
    keepLast,           \* whether that history is kept in this behaviour
    \* ---- attachment accumulation (content.js) ----
    flushers,           \* the suspended flushAttachments() calls: where each
                        \* sleeps, its loop index i, how many it attached
    accumulated,        \* number of accumulateAttachment() calls so far
    flushes,            \* number of flushAttachments() calls so far
    attachedLog,        \* history: the attachments whose attachFile call
                        \* returned, in order
    returns,            \* history: the count each flushAttachments() call
                        \* returned, with the number it had attached
    lost,               \* history: the attachments cleared from the
                        \* collection that no attachFile call was made for
    \* ---- speech engine (content.js, TTS) ----
    enabled,            \* TTS.enabled
    unlocked,           \* TTS.unlocked
    lastSpokenLength,   \* TTS.lastSpokenLength
    pendingText,        \* TTS.pendingText, a sequence of characters
    speakTimeout,       \* TTS.speakTimeout: "null", or the timer is "armed"
                        \* or has "fired"
    lastStreamingElement, \* TTS.lastStreamingElement: 0 is null
    orphans,            \* number of armed debounce timers whose id
                        \* TTS.speakTimeout no longer holds
    inits,              \* number of TTS.init() calls after the first
    pendingFrom,        \* history: the responses (by the number of their
                        \* streaming element) whose text pendingText holds
    said,               \* the response text the last handler gave to speak()
    marked,             \* history: toggle enabled speech while no response
                        \* was streaming, and none has started since
    spoken,             \* history: the texts given to speak() since the
                        \* latest streaming element appeared, concatenated
    steady,             \* history: since that element appeared speech was
                        \* enabled and unlocked all along and the text
                        \* extracted from the response never got shorter
    keepSpoken,         \* whether these two are kept in this behaviour
    \* ---- the page the speech engine observes ----
    streaming,          \* the [data-is-streaming="true"] element: 0 is none
    progressive,        \* it holds a .progressive-markdown
    body,               \* length of its visible response text, normalised
    extra,              \* length innerText counts beyond that (collapsed
                        \* thinking block, white space)
    latest,             \* the latest completed response
    turns,              \* number of streaming elements created so far
    \* ---- DOM lookup (getInputField, getSendButton, getDropZone,
    \*      getFileInput) ----
    target,             \* the function called: "" before any call
    answers,            \* what the page answers: for each selector of the
                        \* function's list what querySelector gives, or the
                        \* list that querySelectorAll gives
    found,              \* what the function returned
    \* ---- language detection (TTS.pickVoiceForText) ----
    counts,             \* count of each language of TTS_LANGUAGES in the text
    detected            \* place of the detected language: 0 before any call

relayVars == <<ws, sockets, reconnectAttempts, timers, serverUrlOk, started,
               badge, contentScriptPort, ports, ev, fx, failures, owed,
               attemptNo>>

pipeVars == <<messageQueue, isProcessing, workers, autoSend, arrived, dequeued,
              pendingAttachments, last, keepLast>>

flushVars == <<flushers, accumulated, flushes, attachedLog, returns, lost>>

ttsVars == <<enabled, unlocked, lastSpokenLength, pendingText, speakTimeout,
             lastStreamingElement, orphans, inits, pendingFrom, said, marked,
             spoken, steady, keepSpoken>>

domVars == <<streaming, progressive, body, extra, latest, turns>>

langVars == <<counts, detected>>

locVars == <<target, answers, found>>

vars == <<relayVars, pipeVars, flushVars, ttsVars, domVars, langVars, locVars>>

(***************************************************************************)
(* Helpers.                                                                *)
(***************************************************************************)
Min(a, b) == IF a <= b THEN a ELSE b

RECURSIVE Pow2(_)
Pow2(n) == IF n = 0 THEN 1 ELSE 2 * Pow2(n - 1)

\* the pending timers are a bag of delays, kept as a sorted sequence
RECURSIVE Insert(_, _)
Insert(seq, d) ==
    IF seq = <<>> THEN <<d>>
    ELSE IF d <= Head(seq) THEN <<d>> \o seq
    ELSE <<Head(seq)>> \o Insert(Tail(seq), d)

\* the ts values a ping carries
Timestamps == {1, 2}

SocketIds == 1..MaxSockets
PortIds == 1..MaxPorts

\* WebSocket.readyState
ReadyStates == {"connecting", "open", "closing", "closed"}

\* Frames on the wire and messages on the port, as the objects that
\* JSON.stringify / JSON.parse carry.
Frame(type, ts, status) == [type |-> type, ts |-> ts, status |-> status]
Ready == Frame("status", 0, "ready")
Pong(ts) == Frame("pong", ts, "")
Ping(ts) == Frame("ping", ts, "")
Envelope == Frame("message", 0, "")
Ack == Frame("ack", 0, "")
Garbage == Frame("garbage", 0, "")
StatusMsg(connected) ==
    Frame("status", 0, IF connected THEN "connected" ELSE "disconnected")

\* One step of a handler that is visible outside the relay.
Fx(op, to, frame) == [op |-> op, target |-> to, frame |-> frame]
NoFrame == Frame("", 0, "")

Ev(kind, sock, frame) == [kind |-> kind, sock |-> sock, frame |-> frame]

(***************************************************************************)
(* The relay's mutable state as one record, so that a handler is the       *)
(* composition of the functions it calls.                                  *)
(***************************************************************************)
RelayState ==
    [ws |-> ws, sockets |-> sockets, reconnectAttempts |-> reconnectAttempts,
     timers |-> timers, serverUrlOk |-> serverUrlOk, badge |-> badge,
     contentScriptPort |-> contentScriptPort, ports |-> ports, fx |-> <<>>]

Commit(r) ==
    /\ ws' = r.ws
    /\ sockets' = r.sockets
    /\ reconnectAttempts' = r.reconnectAttempts
    /\ timers' = r.timers
    /\ serverUrlOk' = r.serverUrlOk
    /\ badge' = r.badge
    /\ contentScriptPort' = r.contentScriptPort
    /\ ports' = r.ports
    /\ fx' = r.fx

IsOpen(r) == r.ws # 0 /\ r.sockets[r.ws].state = "open"

\* A socket object that is closed and no longer referenced can stand for a
\* fresh object.
FreeSockets(r) == {s \in SocketIds : r.sockets[s].state = "closed" /\ r.ws # s}
NewSocket(r) == CHOOSE s \in FreeSockets(r) : \A t \in FreeSockets(r) : s <= t

updateBadge(r, status) == [r EXCEPT !.badge = status]

\* scheduleReconnect without the ceiling of Math.min
scheduleReconnect_NoCeiling(r) ==
    LET delay == reconnectDelay * Pow2(r.reconnectAttempts)
    IN  [r EXCEPT !.reconnectAttempts = @ + 1,
                  !.timers = Insert(@, delay),
                  !.fx = Append(@, Fx("setTimeout", delay, NoFrame))]

scheduleReconnect(r) ==
    LET delay == Min(reconnectDelay * Pow2(r.reconnectAttempts),
                     maxReconnectDelay)
    IN  [r EXCEPT !.reconnectAttempts = @ + 1,
                  !.timers = Insert(@, delay),
                  !.fx = Append(@, Fx("setTimeout", delay, NoFrame))]

connect(r) ==
    IF r.ws # 0 /\ r.sockets[r.ws].state \in {"connecting", "open"}
    THEN r
    ELSE LET r1 == updateBadge(r, "connecting") IN
         IF ~r1.serverUrlOk
         THEN scheduleReconnect([r1 EXCEPT !.fx = Append(@, Fx("newThrows", 0, NoFrame))])
         ELSE LET s == NewSocket(r1) IN
              [r1 EXCEPT !.ws = s,
                         !.sockets[s] = [state |-> "connecting", hooked |-> TRUE],
                         !.fx = Append(@, Fx("new", s, NoFrame))]

\* ws.send(data) on the socket the variable ws names now: a TypeError when
\* ws is null, an InvalidStateError while CONNECTING, the frame on the wire
\* when OPEN, silently discarded when CLOSING or CLOSED.
wsSend(r, frame) ==
    IF r.ws = 0 THEN [r EXCEPT !.fx = Append(@, Fx("throw", 0, NoFrame))]
    ELSE IF r.sockets[r.ws].state = "connecting"
    THEN [r EXCEPT !.fx = Append(@, Fx("throw", r.ws, NoFrame))]
    ELSE IF r.sockets[r.ws].state = "open"
    THEN [r EXCEPT !.fx = Append(@, Fx("send", r.ws, frame))]
    ELSE r

Threw(r) == r.fx # <<>> /\ r.fx[Len(r.fx)].op = "throw"

onopen(r) ==
    wsSend(updateBadge([r EXCEPT !.reconnectAttempts = 0], "connected"), Ready)

onerror(r) == updateBadge(r, "error")

\* ws.onclose that schedules no reconnect
onclose_NoRetry(r) == updateBadge([r EXCEPT !.ws = 0], "disconnected")

onclose(r) ==
    scheduleReconnect(updateBadge([r EXCEPT !.ws = 0], "disconnected"))

reconnect(r) ==
    LET r1 == IF r.ws # 0
              THEN [r EXCEPT
                      !.sockets[r.ws] =
                          [state |-> IF @.state \in {"connecting", "open"}
                                     THEN "closing" ELSE @.state,
                           hooked |-> FALSE],
                      !.ws = 0]
              ELSE r
    IN  connect([r1 EXCEPT !.reconnectAttempts = 0])


\* handleServerMessage(message); hasTab: chrome.tabs.query finds a claude.ai
\* tab.  port.postMessage throws on a port that has disconnected.
handleServerMessage(r, message, hasTab) ==
    IF r.contentScriptPort # 0
    THEN IF r.ports[r.contentScriptPort] = "connected"
         THEN [r EXCEPT !.fx = Append(@, Fx("postMessage", r.contentScriptPort, message))]
         ELSE [r EXCEPT !.contentScriptPort = 0]
    ELSE LET r1 == [r EXCEPT !.fx = Append(@, Fx("tabs.query", 0, NoFrame))] IN
         IF hasTab
         THEN [r1 EXCEPT !.fx = Append(@, Fx("tabs.sendMessage", 0, message))]
         ELSE r1

\* ws.onmessage: JSON.parse throws on data that is no JSON; every exception
\* of the handler is caught.
onmessage(r, data, hasTab) ==
    IF data.type = "garbage" THEN r
    ELSE IF data.type = "ping" THEN wsSend(r, Pong(data.ts))
    ELSE handleServerMessage(r, data, hasTab)

\* chrome.runtime.onConnect listener, for a port named claude-bridge
onConnect(r, p) ==
    LET r1 == [r EXCEPT !.contentScriptPort = p, !.ports[p] = "connected"]
    IN  [r1 EXCEPT !.fx = Append(@, Fx("postMessage", p, StatusMsg(IsOpen(r1))))]

\* port.onMessage listener
portOnMessage(r, message) ==
    IF IsOpen(r) THEN wsSend(r, message) ELSE r

\* port.onDisconnect listener
portOnDisconnect(r, p) ==
    [r EXCEPT !.contentScriptPort = 0, !.ports[p] = "none"]

(***************************************************************************)
(* What the history variables record of a handler's run.                   *)
(***************************************************************************)
Did(r, op) == \E i \in 1..Len(r.fx) : r.fx[i].op = op
Attempted(r) == Did(r, "new") \/ Did(r, "newThrows")

\* connect() can run within the bounds of the model
CanConnect(r) ==
    \/ r.ws # 0 /\ r.sockets[r.ws].state \in {"connecting", "open"}
    \/ /\ r.serverUrlOk
       /\ FreeSockets(r) # {}
    \/ /\ ~r.serverUrlOk
       /\ r.reconnectAttempts < MaxAttempts
       /\ Len(r.timers) < MaxTimers

\* the history after a handler that may have called connect()
NoteAttempt(r, base) ==
    /\ failures' = IF Did(r, "newThrows") THEN base + 1 ELSE base
    /\ owed' = IF Did(r, "newThrows") THEN TRUE
               ELSE IF Did(r, "new") THEN FALSE ELSE owed
    /\ attemptNo' = IF Attempted(r) THEN 1 - attemptNo ELSE attemptNo

(***************************************************************************)
(* Initial state: the service worker's script has run to its end; the      *)
(* storage callback that calls connect() is still to come.                 *)
(***************************************************************************)
InitRelay ==
    /\ ws = 0
    /\ sockets = [s \in SocketIds |-> [state |-> "closed", hooked |-> FALSE]]
    /\ reconnectAttempts = 0
    /\ timers = <<>>
    /\ serverUrlOk = TRUE
    /\ started = FALSE
    /\ badge = "disconnected"
    /\ contentScriptPort = 0
    /\ ports = [p \in PortIds |-> "none"]
    /\ ev = Ev("init", 0, NoFrame)
    /\ fx = <<>>
    /\ failures = 0
    /\ owed = FALSE
    /\ attemptNo = 0

\* a relay handler touches nothing of the page
RelayOnly == UNCHANGED <<pipeVars, flushVars, ttsVars, domVars, langVars, locVars>>

(***************************************************************************)
(* Relay actions.                                                          *)
(***************************************************************************)
\* chrome.storage.sync.get callback: a stored URL replaces the default one
Startup ==
    /\ ~started
    /\ \E ok \in BOOLEAN :
         LET r0 == [RelayState EXCEPT !.serverUrlOk = ok] IN
         /\ CanConnect(r0)
         /\ Commit(connect(r0))
         /\ NoteAttempt(connect(r0), failures)
    /\ started' = TRUE
    /\ ev' = Ev("startup", 0, NoFrame)
    /\ RelayOnly

\* chrome.storage.onChanged listener with a new serverUrl
StorageChanged ==
    /\ \E ok \in BOOLEAN :
         LET r0 == [RelayState EXCEPT !.serverUrlOk = ok] IN
         /\ CanConnect([r0 EXCEPT !.ws = 0, !.reconnectAttempts = 0])
         /\ Commit(reconnect(r0))
         /\ NoteAttempt(reconnect(r0), 0)
    /\ ev' = Ev("reconnect", 0, NoFrame)
    /\ RelayOnly
    /\ UNCHANGED started

\* chrome.runtime.onMessage listener, message.type = reconnect
ReconnectRequest ==
    /\ CanConnect([RelayState EXCEPT !.ws = 0, !.reconnectAttempts = 0])
    /\ Commit(reconnect(RelayState))
    /\ NoteAttempt(reconnect(RelayState), 0)
    /\ ev' = Ev("reconnect", 0, NoFrame)
    /\ RelayOnly
    /\ UNCHANGED started

\* chrome.alarms.onAlarm listener, alarm.name = keepalive
KeepaliveAlarm ==
    /\ LET r0 == RelayState IN
       IF ~IsOpen(r0)
       THEN /\ CanConnect(r0)
            /\ Commit(connect(r0))
            /\ NoteAttempt(connect(r0), failures)
       ELSE /\ Commit(r0)
            /\ UNCHANGED <<failures, owed, attemptNo>>
    /\ ev' = Ev("alarm", 0, NoFrame)
    /\ RelayOnly
    /\ UNCHANGED started

\* a pending setTimeout(connect, delay) fires
TimerFires ==
    \E i \in 1..Len(timers) :
        LET r0 == [RelayState EXCEPT
                     !.timers = SubSeq(@, 1, i - 1) \o SubSeq(@, i + 1, Len(@))]
        IN  /\ CanConnect(r0)
            /\ Commit(connect(r0))
            /\ NoteAttempt(connect(r0), failures)
            /\ ev' = Ev("timer", 0, NoFrame)
            /\ RelayOnly
            /\ UNCHANGED started

\* the connection of socket s is established: readyState OPEN, open event
SocketOpens(s) ==
    /\ sockets[s].state = "connecting"
    /\ LET r0 == [RelayState EXCEPT !.sockets[s].state = "open"] IN
       Commit(onopen(r0))
    /\ failures' = 0
    /\ ev' = Ev("open", s, NoFrame)
    /\ RelayOnly
    /\ UNCHANGED <<started, owed, attemptNo>>

\* the server's Close frame arrives on socket s: the closing handshake has
\* started, readyState CLOSING, no event
ClosingHandshake(s) ==
    /\ sockets[s].state = "open"
    /\ Commit([RelayState EXCEPT !.sockets[s].state = "closing"])
    /\ ev' = Ev("closing", s, NoFrame)
    /\ RelayOnly
    /\ UNCHANGED <<started, failures, owed, attemptNo>>

\* the connection of socket s is closed (or could not be made): readyState
\* CLOSED, then the error event when it failed, then the close event
SocketCloses(s) ==
    /\ sockets[s].state \in {"connecting", "open", "closing"}
    /\ \E failed \in BOOLEAN :
         /\ sockets[s].state = "connecting" => failed
         /\ LET r0 == [RelayState EXCEPT !.sockets[s].state = "closed"]
                r1 == IF failed THEN onerror(r0) ELSE r0
            IN  IF sockets[s].hooked
                THEN /\ reconnectAttempts < MaxAttempts
                     /\ Len(timers) < MaxTimers
                     /\ Commit(onclose(r1))
                     /\ failures' = failures + 1
                     /\ owed' = TRUE
                     /\ UNCHANGED attemptNo
                ELSE /\ Commit(r0)
                     /\ UNCHANGED <<failures, owed, attemptNo>>
    /\ ev' = Ev("close", s, NoFrame)
    /\ RelayOnly
    /\ UNCHANGED started

\* a message event on socket s (delivered only while it is OPEN)
SocketMessage(s) ==
    /\ sockets[s].state = "open"
    /\ \E data \in {Ping(t) : t \in Timestamps} \cup {Envelope, Garbage},
          hasTab \in BOOLEAN :
         /\ Commit(onmessage(RelayState, data, hasTab))
         /\ ev' = Ev("message", s, data)
         /\ RelayOnly
    /\ UNCHANGED <<started, failures, owed, attemptNo>>

\* a content script connects a port named claude-bridge
PortConnects(p) ==
    /\ ports[p] = "none"
    /\ Commit(onConnect(RelayState, p))
    /\ ev' = Ev("portConnect", p, NoFrame)
    /\ RelayOnly
    /\ UNCHANGED <<started, failures, owed, attemptNo>>

\* the content script's end of port p goes away; the disconnect event of
\* the relay's end is still to be delivered
PortDies(p) ==
    /\ ports[p] = "connected"
    /\ Commit([RelayState EXCEPT !.ports[p] = "dead"])
    /\ ev' = Ev("portDies", p, NoFrame)
    /\ RelayOnly
    /\ UNCHANGED <<started, failures, owed, attemptNo>>

\* the disconnect event of port p
PortDisconnects(p) ==
    /\ ports[p] = "dead"
    /\ Commit(portOnDisconnect(RelayState, p))
    /\ ev' = Ev("portDisconnect", p, NoFrame)
    /\ RelayOnly
    /\ UNCHANGED <<started, failures, owed, attemptNo>>

\* the content script posts a message on port p
PortMessage(p) ==
    /\ ports[p] = "connected"
    /\ Commit(portOnMessage(RelayState, Ack))
    /\ ev' = Ev("portMessage", p, Ack)
    /\ RelayOnly
    /\ UNCHANGED <<started, failures, owed, attemptNo>>

\* the connection's events that need no user
NextAuto ==
    \/ Startup
    \/ KeepaliveAlarm
    \/ TimerFires
    \/ \E s \in SocketIds : SocketOpens(s)
    \/ \E s \in SocketIds : ClosingHandshake(s)
    \/ \E s \in SocketIds : SocketCloses(s)

\* the connection's own events
NextConn ==
    \/ Startup
    \/ StorageChanged
    \/ ReconnectRequest
    \/ KeepaliveAlarm
    \/ TimerFires
    \/ \E s \in SocketIds : SocketOpens(s)
    \/ \E s \in SocketIds : ClosingHandshake(s)
    \/ \E s \in SocketIds : SocketCloses(s)

\* the connection's events and the messages that arrive on it
NextLink ==
    \/ NextConn
    \/ \E s \in SocketIds : SocketMessage(s)

\* the relay and the content scripts' ports; the connection is remade by
\* the keepalive alarm's and reconnect()'s calls of connect(), the pending
\* reconnect timers staying pending
NextBridge ==
    \/ Startup
    \/ KeepaliveAlarm
    \/ ReconnectRequest
    \/ \E s \in SocketIds : SocketOpens(s)
    \/ \E s \in SocketIds : ClosingHandshake(s)
    \/ \E s \in SocketIds : SocketCloses(s)
    \/ \E s \in SocketIds : SocketMessage(s)
    \/ \E p \in PortIds : PortConnects(p)
    \/ \E p \in PortIds : PortDies(p)
    \/ \E p \in PortIds : PortDisconnects(p)
    \/ \E p \in PortIds : PortMessage(p)

\* the whole relay: the connection, its messages, the content scripts' ports
NextRelay ==
    \/ NextLink
    \/ \E p \in PortIds : PortConnects(p)
    \/ \E p \in PortIds : PortDies(p)
    \/ \E p \in PortIds : PortDisconnects(p)
    \/ \E p \in PortIds : PortMessage(p)


(***************************************************************************)
(* The pipeline of content.js.                                             *)
(*                                                                         *)
(* An envelope is the message object of handleMessage; file_data is        *)
(* "none" (absent), "ok" (base64 that atob decodes) or "bad" (atob         *)
(* throws).  id is the arrival number, for the claims only.                *)
(***************************************************************************)
ContentTypes == {"text", "voice_transcribed", "file", "image", "voice_audio", "sticker"}
FileTypes == {"file", "image", "voice_audio"}
TextTypes == {"text", "voice_transcribed"}

Shapes ==
    {[type |-> "message", content_type |-> ct, file_data |-> "none", caption |-> FALSE] :
        ct \in {"text", "voice_transcribed", "sticker", "file"}}
    \cup
    {[type |-> "message", content_type |-> ct, file_data |-> "ok", caption |-> c] :
        ct \in FileTypes, c \in BOOLEAN}
    \cup
    {[type |-> "message", content_type |-> "file", file_data |-> "bad", caption |-> TRUE],
     [type |-> "status", content_type |-> "text", file_data |-> "none", caption |-> FALSE]}

\* the envelope of that shape as the n-th one pushed; sender, text and the
\* caption's words are strings the code only copies
WithId(shape, n) ==
    [id |-> n, type |-> shape.type, content_type |-> shape.content_type,
     file_data |-> shape.file_data, caption |-> shape.caption,
     sender |-> "Ana", text |-> "hello", words |-> "look"]

\* CONFIG.attributionPrefix is true: `[${sender}]: ${text}`, a string being
\* the sequence of its pieces
attributed(sender, text) == <<"[", sender, "]: ", text>>

\* what a processQueue() call did for its message: the DOM operations, the
\* toasts and the sleeps it began, in order
Op(op, ms) == [op |-> op, ms |-> ms]
Did1(w, op) == [w EXCEPT !.ops = Append(@, Op(op, 0))]
Sleep(w, pc, ms) == [w EXCEPT !.pc = pc, !.ops = Append(@, Op("sleep", ms))]

\* What the page answers to one run of the code between two sleeps.
\*   input:  getInputField() finds no input ("none"), or one whose
\*           textContent is "empty" or "filled"
\*   button: getSendButton() finds an enabled button
\*   drag:   the drag event dispatched in this run throws
\*   finput: "ok", "absent" (getFileInput() is null) or "throws"
Pages == [input : {"none", "empty", "filled"}, button : BOOLEAN, drag : BOOLEAN,
          finput : {"ok", "absent", "throws"}]

\* processQueue without try/catch: the exception ends the call
caught_Uncaught(w) == [w EXCEPT !.pc = "dead"]

\* processQueue: the catch of the loop body, then await sleep(300)
caught(w) == Sleep(Did1(w, "toast:error"), "pause", interMessageDelay)

\* processQueue: processMessage returned, then await sleep(300)
returned(w) == Sleep(w, "pause", interMessageDelay)

\* injectText: throws when the input is not found; else sets the input's
\* textContent to the text, after what the input held and a line break
injectText(w, page, text) ==
    IF page.input = "none" THEN Did1(w, "inject!")
    ELSE LET existingText == IF page.input = "filled" THEN <<"draft">> ELSE <<>>
             newText == IF existingText # <<>>
                        THEN existingText \o <<"\n">> \o text
                        ELSE text
         IN  [Did1(w, "inject") EXCEPT !.before = existingText, !.input = newText]

Failed(w) == w.ops # <<>> /\ w.ops[Len(w.ops)].op \in {"inject!", "decode!"}

\* clickSend
clickSend(w, page) ==
    IF page.button THEN Did1(Did1(w, "clickSend"), "click") ELSE Did1(w, "clickSend")

\* attachFile, Method 2 to its end: the file input, then await sleep(200)
attachMethod2(w, page) ==
    Sleep(Did1(w, IF page.finput = "ok" THEN "fileInput"
                  ELSE IF page.finput = "absent" THEN "fileInput?"
                  ELSE "fileInput!"),
          "settle", attachSettleDelay)

\* attachFile from its start to its first sleep
attachFile(w, page) ==
    IF w.msg.file_data = "bad" THEN Did1(w, "decode!")
    ELSE IF page.drag THEN attachMethod2(Did1(w, "dragenter!"), page)
    ELSE Sleep(Did1(w, "dragenter"), "dragover", dragDelay)

\* attachFile in which an exception of the drag events ends the call
attachDragover_OneTry(w, page) ==
    IF page.drag THEN Sleep(Did1(w, "dragover!"), "settle", attachSettleDelay)
    ELSE Sleep(Did1(w, "dragover"), "drop", dragDelay)

\* attachFile resumed after the sleep that follows dragenter
attachDragover(w, page) ==
    IF page.drag THEN attachMethod2(Did1(w, "dragover!"), page)
    ELSE Sleep(Did1(w, "dragover"), "drop", dragDelay)

\* attachFile resumed after the sleep that follows dragover
attachDrop(w, page) ==
    attachMethod2(Did1(w, IF page.drag THEN "drop!" ELSE "drop"), page)

\* processMessage, text branch, that waits the attachment delay
processText_AttachDelay(w, page, send) ==
    LET w1 == injectText(w, page, attributed(w.msg.sender, w.msg.text)) IN
    IF Failed(w1) THEN caught(w1)
    ELSE LET w2 == Did1(w1, "toast:message") IN
         IF send THEN Sleep(w2, "send", attachmentDelay) ELSE returned(w2)

\* processMessage, text branch
processText(w, page, send) ==
    LET w1 == injectText(w, page, attributed(w.msg.sender, w.msg.text)) IN
    IF Failed(w1) THEN caught(w1)
    ELSE LET w2 == Did1(w1, "toast:message") IN
         IF send THEN Sleep(w2, "send", messageDelay) ELSE returned(w2)

\* processMessage, file branch, that sends whether or not there is a caption
processAttached_SendsAlways(w, page, send) ==
    LET w1 == Did1(w, "toast:attached")
        w2 == injectText(w1, page, attributed(w.msg.sender, w.msg.words))
    IN  IF Failed(w2) THEN caught(w2)
        ELSE LET w3 == Did1(w2, "toast:message") IN
             IF send THEN Sleep(w3, "send", attachmentDelay) ELSE returned(w3)

\* processMessage, file branch, that waits the text delay before the send
processAttached_TextDelay(w, page, send) ==
    LET w1 == Did1(w, "toast:attached") IN
    IF w.msg.caption
    THEN LET w2 == injectText(w1, page, attributed(w.msg.sender, w.msg.words)) IN
         IF Failed(w2) THEN caught(w2)
         ELSE LET w3 == Did1(w2, "toast:message") IN
              IF send THEN Sleep(w3, "send", messageDelay) ELSE returned(w3)
    ELSE returned(w1)

\* processMessage, file branch, resumed when attachFile has returned
processAttached(w, page, send) ==
    LET w1 == Did1(w, "toast:attached") IN
    IF w.msg.caption
    THEN LET w2 == injectText(w1, page, attributed(w.msg.sender, w.msg.words)) IN
         IF Failed(w2) THEN caught(w2)
         ELSE LET w3 == Did1(w2, "toast:message") IN
              IF send THEN Sleep(w3, "send", attachmentDelay) ELSE returned(w3)
    ELSE returned(w1)

\* processMessage that takes every envelope without a file for a text
processMessage_AllText(w, page, send) ==
    IF w.msg.file_data # "none" /\ w.msg.content_type \in FileTypes
    THEN LET w1 == attachFile(w, page) IN
         IF Failed(w1) THEN caught(w1) ELSE w1
    ELSE processText(w, page, send)

\* processMessage from its start to its first sleep
processMessage(w, page, send) ==
    IF w.msg.file_data # "none" /\ w.msg.content_type \in FileTypes
    THEN LET w1 == attachFile(w, page) IN
         IF Failed(w1) THEN caught(w1) ELSE w1
    ELSE IF w.msg.content_type \in TextTypes
    THEN processText(w, page, send)
    ELSE returned(w)

\* a processQueue() call resumed when the sleep it awaits is over, up to
\* its next sleep; after the pause it is back at the head of the loop
resumed(w, page, send) ==
    IF w.pc = "dragover" THEN attachDragover(w, page)
    ELSE IF w.pc = "drop" THEN attachDrop(w, page)
    ELSE IF w.pc = "settle" THEN processAttached(w, page, send)
    ELSE IF w.pc = "send" THEN returned(clickSend(w, page))
    ELSE w

\* the state of the pipeline as one record
PipeState ==
    [messageQueue |-> messageQueue, isProcessing |-> isProcessing,
     workers |-> workers, dequeued |-> dequeued,
     pendingAttachments |-> pendingAttachments, last |-> last,
     keepLast |-> keepLast]

CommitPipe(q) ==
    /\ messageQueue' = q.messageQueue
    /\ isProcessing' = q.isProcessing
    /\ workers' = q.workers
    /\ dequeued' = q.dequeued
    /\ pendingAttachments' = q.pendingAttachments
    /\ last' = q.last

\* accumulateAttachment: no code of content.js calls it
accumulateAttachment(q, message) ==
    [q EXCEPT !.pendingAttachments =
                 Append(@, [id |-> message.id, sender |-> message.sender,
                            base64Data |-> message.file_data])]

\* the processQueue() call at place i is done with its envelope
finished(q, i) ==
    IF q.keepLast /\ i <= Len(q.workers)
    THEN [q EXCEPT !.last = <<q.workers[i]>>]
    ELSE q

\* the while loop of a processQueue that accumulates a captionless file
\* instead of attaching it
loopHead_Accumulates(q, i, page, send) ==
    LET q0 == finished(q, i) IN
    IF q0.messageQueue # <<>>
    THEN LET message == Head(q0.messageQueue)
             w0 == [pc |-> "start", msg |-> message, ops |-> <<>>,
                    before |-> <<>>, input |-> <<>>]
             held == /\ message.file_data # "none"
                     /\ message.content_type \in FileTypes
                     /\ ~message.caption
             w == IF held THEN returned(Did1(w0, "toast:queued"))
                  ELSE processMessage(w0, page, send)
             q1 == IF held THEN accumulateAttachment(q0, message) ELSE q0
         IN  [q1 EXCEPT !.messageQueue = Tail(@),
                        !.dequeued = Append(@, message.id),
                        !.workers = IF i > Len(@) THEN Append(@, w)
                                    ELSE [@ EXCEPT ![i] = w]]
    ELSE [q0 EXCEPT !.isProcessing = FALSE,
                    !.workers = SubSeq(@, 1, i - 1) \o SubSeq(@, i + 1, Len(@))]

\* a processQueue that ends after the pause of its first envelope without
\* testing the queue again
loopHead_OnePass(q, i, page, send) ==
    LET q0 == finished(q, i) IN
    IF q0.messageQueue # <<>> /\ i > Len(q0.workers)
    THEN LET message == Head(q0.messageQueue)
             w == processMessage([pc |-> "start", msg |-> message, ops |-> <<>>,
                                  before |-> <<>>, input |-> <<>>],
                                 page, send)
         IN  [q0 EXCEPT !.messageQueue = Tail(@),
                        !.dequeued = Append(@, message.id),
                        !.workers = Append(@, w)]
    ELSE [q0 EXCEPT !.isProcessing = FALSE,
                    !.workers = SubSeq(@, 1, i - 1) \o SubSeq(@, i + 1, Len(@))]

\* processQueue: the head of the while loop, for the call at place i of
\* workers (a new call when i is one more than their number)
loopHead(q, i, page, send) ==
    LET q0 == finished(q, i) IN
    IF q0.messageQueue # <<>>
    THEN LET message == Head(q0.messageQueue)
             w == processMessage([pc |-> "start", msg |-> message, ops |-> <<>>,
                                  before |-> <<>>, input |-> <<>>],
                                 page, send)
         IN  [q0 EXCEPT !.messageQueue = Tail(@),
                        !.dequeued = Append(@, message.id),
                        !.workers = IF i > Len(@) THEN Append(@, w)
                                    ELSE [@ EXCEPT ![i] = w]]
    ELSE [q0 EXCEPT !.isProcessing = FALSE,
                    !.workers = SubSeq(@, 1, i - 1) \o SubSeq(@, i + 1, Len(@))]

\* processQueue without the isProcessing test
processQueue_NoFlag(q, page, send) ==
    IF q.messageQueue = <<>> THEN q
    ELSE loopHead([q EXCEPT !.isProcessing = TRUE], Len(q.workers) + 1, page, send)

processQueue(q, page, send) ==
    IF q.isProcessing \/ q.messageQueue = <<>> THEN q
    ELSE loopHead([q EXCEPT !.isProcessing = TRUE], Len(q.workers) + 1, page, send)

handleMessage(q, message, page, send) ==
    IF message.type # "message" THEN q
    ELSE processQueue([q EXCEPT !.messageQueue = Append(@, message)], page, send)

InitPipe ==
    /\ messageQueue = <<>>
    /\ isProcessing = FALSE
    /\ workers = <<>>
    /\ autoSend = TRUE
    /\ arrived = 0
    /\ dequeued = <<>>
    /\ pendingAttachments = <<>>
    /\ last = <<>>
    /\ keepLast = FALSE

\* a pipeline handler touches nothing of the relay
PipeOnly == UNCHANGED <<relayVars, flushVars, ttsVars, domVars, langVars, locVars>>

\* a message from the port or from chrome.runtime.onMessage
HandleMessage ==
    /\ arrived < MaxEnvelopes
    /\ \E shape \in Shapes, page \in Pages :
         /\ CommitPipe(handleMessage(PipeState, WithId(shape, arrived + 1), page, autoSend))
         /\ arrived' = IF shape.type = "message" THEN arrived + 1 ELSE arrived
    /\ UNCHANGED <<autoSend, keepLast>>
    /\ PipeOnly

\* the sleep that the processQueue() call at place i awaits is over
Resume(i) ==
    /\ i \in 1..Len(workers)
    /\ \E page \in Pages :
         IF workers[i].pc = "pause"
         THEN CommitPipe(loopHead(PipeState, i, page, autoSend))
         ELSE CommitPipe([PipeState EXCEPT
                            !.workers[i] = resumed(workers[i], page, autoSend)])
    /\ UNCHANGED <<autoSend, arrived, keepLast>>
    /\ PipeOnly

NextPipe ==
    \/ HandleMessage
    \/ \E i \in 1..MaxEnvelopes : Resume(i)

(***************************************************************************)
(* Attachment accumulation: accumulateAttachment and flushAttachments of   *)
(* content.js.  No code of content.js calls them; the actions below call   *)
(* them as a caller could, a call of one running while a call of           *)
(* flushAttachments sleeps.                                                *)
(***************************************************************************)
\* the collection and the flushAttachments() calls as one record
FlushState ==
    [pendingAttachments |-> pendingAttachments, flushers |-> flushers,
     attachedLog |-> attachedLog, returns |-> returns, lost |-> lost]

CommitFlush(f) ==
    /\ pendingAttachments' = f.pendingAttachments
    /\ flushers' = f.flushers
    /\ attachedLog' = f.attachedLog
    /\ returns' = f.returns
    /\ lost' = f.lost

Without(seq, k) == SubSeq(seq, 1, k - 1) \o SubSeq(seq, k + 1, Len(seq))

\* what a flushAttachments() call ended with: the count it returned, or the
\* exception of attachFile; n is the number of attachFile calls that
\* returned to it
Returned(count, n) == [count |-> count, n |-> n, threw |-> FALSE]
Thrown(n) == [count |-> 0, n |-> n, threw |-> TRUE]

\* flushAttachments: the test of the for loop for the call at place k, then
\* the loop body up to its await of attachFile (whose decoding throws at
\* once on a payload that atob rejects), or the lines after the loop
flushLoop(f, k) ==
    LET w == f.flushers[k] IN
    IF w.i < Len(f.pendingAttachments)
    THEN LET att == f.pendingAttachments[w.i + 1] IN
         IF att.base64Data = "bad"
         THEN [f EXCEPT !.flushers = Without(@, k),
                        !.returns = Append(@, Thrown(w.n))]
         ELSE [f EXCEPT !.flushers[k] = [w EXCEPT !.pc = "attachFile",
                                                  !.att = att.id]]
    ELSE LET count == Len(f.pendingAttachments)
             ids == {f.pendingAttachments[j].id : j \in 1..count}
             logged == {f.attachedLog[j] : j \in 1..Len(f.attachedLog)}
         IN  [f EXCEPT !.pendingAttachments = <<>>,
                       !.lost = @ \cup (ids \ logged),
                       !.flushers = Without(@, k),
                       !.returns = Append(@, Returned(count, w.n))]

\* flushAttachments from its start to its first await
flushAttachments(f) ==
    IF Len(f.pendingAttachments) = 0
    THEN [f EXCEPT !.returns = Append(@, Returned(0, 0))]
    ELSE flushLoop([f EXCEPT !.flushers =
                        Append(@, [pc |-> "start", i |-> 0, n |-> 0, att |-> 0])],
                   Len(f.flushers) + 1)

\* the call at place k resumed: attachFile has returned, then await
\* sleep(200); or that sleep is over, then i++ and the test of the loop
flushResumed(f, k) ==
    LET w == f.flushers[k] IN
    IF w.pc = "attachFile"
    THEN [f EXCEPT !.flushers[k].pc = "sleep",
                   !.flushers[k].n = @ + 1,
                   !.attachedLog = Append(@, w.att)]
    ELSE flushLoop([f EXCEPT !.flushers[k].i = @ + 1], k)

InitFlush ==
    /\ flushers = <<>>
    /\ accumulated = 0
    /\ flushes = 0
    /\ attachedLog = <<>>
    /\ returns = <<>>
    /\ lost = {}

\* a call of accumulateAttachment or flushAttachments touches only the
\* collection
FlushOnly ==
    UNCHANGED <<relayVars, ttsVars, domVars, langVars, locVars, messageQueue,
                isProcessing, workers, autoSend, arrived, dequeued, last,
                keepLast>>

\* a call of accumulateAttachment
Accumulate ==
    /\ accumulated < MaxItems
    /\ \E data \in {"ok", "bad"} :
         CommitFlush(accumulateAttachment(FlushState,
             [id |-> accumulated + 1, sender |-> "Ana", file_data |-> data]))
    /\ accumulated' = accumulated + 1
    /\ UNCHANGED flushes
    /\ FlushOnly

\* a call of flushAttachments
FlushStarts ==
    /\ flushes < MaxFlushes
    /\ CommitFlush(flushAttachments(FlushState))
    /\ flushes' = flushes + 1
    /\ UNCHANGED accumulated
    /\ FlushOnly

\* the await of the flushAttachments() call at place k is over
FlushResumes(k) ==
    /\ k \in 1..Len(flushers)
    /\ CommitFlush(flushResumed(FlushState, k))
    /\ UNCHANGED <<accumulated, flushes>>
    /\ FlushOnly

NextFlush ==
    \/ Accumulate
    \/ FlushStarts
    \/ \E k \in 1..MaxFlushes : FlushResumes(k)

(***************************************************************************)
(* The speech engine: the TTS object of content.js.                        *)
(* A character of a response is named by its place in the text; the text   *)
(* of length n is <<1, ..., n>>.  The browser's queue of utterances is not *)
(* part of the model: said is what a handler hands to speak().             *)
(***************************************************************************)
Text(n) == [k \in 1..n |-> k]
NoLatest == [exists |-> FALSE, body |-> 0, extra |-> 0]
Latest(b, x) == [exists |-> TRUE, body |-> b, extra |-> x]

\* the TTS object as one record; said starts empty in every handler
TTSState ==
    [enabled |-> enabled, unlocked |-> unlocked,
     lastSpokenLength |-> lastSpokenLength, pendingText |-> pendingText,
     speakTimeout |-> speakTimeout,
     lastStreamingElement |-> lastStreamingElement, orphans |-> orphans,
     pendingFrom |-> pendingFrom, said |-> <<>>]

\* the page as one record
Dom ==
    [streaming |-> streaming, progressive |-> progressive, body |-> body,
     extra |-> extra, latest |-> latest, turns |-> turns]

CommitTTS(t) ==
    /\ enabled' = t.enabled
    /\ unlocked' = t.unlocked
    /\ lastSpokenLength' = t.lastSpokenLength
    /\ pendingText' = t.pendingText
    /\ speakTimeout' = t.speakTimeout
    /\ lastStreamingElement' = t.lastStreamingElement
    /\ orphans' = t.orphans
    /\ pendingFrom' = t.pendingFrom
    /\ said' = t.said

\* TTS.processResponseElement: n is the length of the text extracted from
\* the element; clearTimeout of the timer held, then setTimeout
processResponseElement(t, element, n) ==
    IF n > t.lastSpokenLength
    THEN [t EXCEPT !.pendingText = @ \o SubSeq(Text(n), t.lastSpokenLength + 1, n),
                   !.pendingFrom = @ \cup {element},
                   !.lastSpokenLength = n,
                   !.speakTimeout = "armed"]
    ELSE t

\* the MutationObserver callback without the reset of the cursor on a new
\* streaming element
observer_KeepsCursor(t, d) ==
    IF ~t.enabled THEN t
    ELSE IF d.streaming # 0
    THEN LET t1 == IF d.streaming # t.lastStreamingElement
                   THEN [t EXCEPT !.pendingText = <<>>,
                                  !.pendingFrom = {},
                                  !.speakTimeout = "null",
                                  !.lastStreamingElement = d.streaming]
                   ELSE t
         IN  IF d.progressive
             THEN processResponseElement(t1, d.streaming, d.body)
             ELSE t1
    ELSE LET t1 == [t EXCEPT !.lastStreamingElement = 0] IN
         IF d.latest.exists /\ d.latest.body + d.latest.extra > t1.lastSpokenLength
         THEN processResponseElement(t1, d.turns, d.latest.body)
         ELSE t1

\* the MutationObserver callback of TTS.startObserving
observer(t, d) ==
    IF ~t.enabled THEN t
    ELSE IF d.streaming # 0
    THEN LET t1 == IF d.streaming # t.lastStreamingElement
                   THEN [t EXCEPT !.lastSpokenLength = 0,
                                  !.pendingText = <<>>,
                                  !.pendingFrom = {},
                                  !.speakTimeout = "null",
                                  !.lastStreamingElement = d.streaming]
                   ELSE t
         IN  IF d.progressive
             THEN processResponseElement(t1, d.streaming, d.body)
             ELSE t1
    ELSE LET t1 == [t EXCEPT !.lastStreamingElement = 0] IN
         IF d.latest.exists /\ d.latest.body + d.latest.extra > t1.lastSpokenLength
         THEN processResponseElement(t1, d.turns, d.latest.body)
         ELSE t1

\* TTS.speak without the test of unlocked
speak_NoGate(t, text) ==
    IF text = <<>> THEN t ELSE [t EXCEPT !.said = text]

\* TTS.speak
speak(t, text) ==
    IF text = <<>> \/ ~t.unlocked THEN t ELSE [t EXCEPT !.said = text]

\* the callback of the debounce timer set by processResponseElement
callback(t) ==
    IF t.pendingText # <<>>
    THEN [speak(t, t.pendingText) EXCEPT !.pendingText = <<>>, !.pendingFrom = {}]
    ELSE t

\* the timer whose id TTS.speakTimeout holds fires
debounce(t) == callback([t EXCEPT !.speakTimeout = "fired"])

\* a timer whose id is no longer held fires
orphan(t) == callback([t EXCEPT !.orphans = @ - 1])

\* TTS.startObserving, called again by TTS.init(): the fields are set anew,
\* the timer that speakTimeout named is not cleared; the second observer
\* runs the same callback on the same mutations
startObserving(t) ==
    [t EXCEPT !.pendingText = <<>>,
              !.pendingFrom = {},
              !.orphans = IF t.speakTimeout = "armed" THEN @ + 1 ELSE @,
              !.speakTimeout = "null",
              !.lastStreamingElement = 0]

\* TTS.toggle; its showToast changes the page, so the observer runs next
toggle(t, d) ==
    LET t1 == [t EXCEPT !.unlocked = TRUE, !.enabled = ~t.enabled]
        t2 == IF ~t1.enabled THEN t1
              ELSE IF d.streaming # 0
              THEN IF d.progressive
                   THEN [t1 EXCEPT !.lastSpokenLength = d.body + d.extra,
                                   !.lastStreamingElement = d.streaming]
                   ELSE t1
              ELSE IF d.latest.exists
              THEN [t1 EXCEPT !.lastSpokenLength = d.latest.body + d.latest.extra]
              ELSE t1
    IN  observer([t2 EXCEPT !.pendingText = <<>>, !.pendingFrom = {}], d)

\* TTS.stop
stop(t) == [t EXCEPT !.lastSpokenLength = 0]

\* TTS.reset
reset(t) == [stop(t) EXCEPT !.lastSpokenLength = 0]

InitTTS ==
    /\ enabled = FALSE
    /\ unlocked = FALSE
    /\ lastSpokenLength = 0
    /\ pendingText = <<>>
    /\ speakTimeout = "null"
    /\ lastStreamingElement = 0
    /\ orphans = 0
    /\ inits = 0
    /\ pendingFrom = {}
    /\ said = <<>>
    /\ marked = FALSE
    /\ spoken = <<>>
    /\ steady = FALSE
    /\ keepSpoken = FALSE
    /\ streaming = 0
    /\ progressive = FALSE
    /\ body = 0
    /\ extra = 0
    /\ latest = NoLatest
    /\ turns = 0

\* a speech handler touches nothing of the relay or of the pipeline
TTSOnly == UNCHANGED <<relayVars, pipeVars, flushVars, langVars, locVars>>

\* the history of the turn, for a step that runs a handler of the engine:
\* a new streaming element starts it anew
TurnLog ==
    /\ UNCHANGED keepSpoken
    /\ IF ~keepSpoken THEN UNCHANGED <<spoken, steady>>
       ELSE /\ steady' = /\ enabled' /\ unlocked'
                         /\ turns' # turns \/ (steady /\ body' >= body)
            /\ spoken' = IF ~steady' THEN <<>>
                         ELSE IF turns' # turns THEN said'
                         ELSE spoken \o said'
            /\ Len(spoken') <= MaxSpoken

\* the page starts a response: a new streaming element, then the observer
StreamStarts ==
    /\ streaming = 0
    /\ turns < MaxTurns
    /\ marked' = FALSE
    /\ \E p \in BOOLEAN :
         /\ streaming' = turns + 1
         /\ progressive' = p
         /\ body' = 0
         /\ extra' = 0
         /\ turns' = turns + 1
         /\ UNCHANGED latest
         /\ CommitTTS(observer(TTSState,
                [Dom EXCEPT !.streaming = turns + 1, !.progressive = p,
                            !.body = 0, !.extra = 0]))
    /\ Len(pendingText') <= MaxPending
    /\ UNCHANGED inits
    /\ TurnLog
    /\ TTSOnly

\* the text of the streaming response changes, then the observer
TextChanges ==
    /\ streaming # 0
    /\ \E b \in 0..MaxText, x \in 0..MaxExtra :
         /\ <<b, x, TRUE>> # <<body, extra, progressive>>
         /\ body' = b
         /\ extra' = x
         /\ progressive' = TRUE
         /\ CommitTTS(observer(TTSState,
                [Dom EXCEPT !.body = b, !.extra = x, !.progressive = TRUE]))
    /\ UNCHANGED <<streaming, latest, turns, marked, inits>>
    /\ Len(pendingText') <= MaxPending
    /\ TurnLog
    /\ TTSOnly

\* data-is-streaming turns "false": attributes are not observed
StreamEnds ==
    /\ streaming # 0
    /\ streaming' = 0
    /\ latest' = Latest(body, extra)
    /\ UNCHANGED <<progressive, body, extra, turns>>
    /\ UNCHANGED ttsVars
    /\ TTSOnly

\* some other change of the page (a toast shown or removed): the observer
OtherMutation ==
    /\ CommitTTS(observer(TTSState, Dom))
    /\ Len(pendingText') <= MaxPending
    /\ UNCHANGED <<domVars, marked, inits>>
    /\ TurnLog
    /\ TTSOnly

\* the debounce timer fires
DebounceFires ==
    /\ speakTimeout = "armed"
    /\ CommitTTS(debounce(TTSState))
    /\ UNCHANGED <<domVars, marked, inits>>
    /\ TurnLog
    /\ TTSOnly

\* a debounce timer fires whose id TTS.speakTimeout no longer holds
OrphanFires ==
    /\ orphans > 0
    /\ CommitTTS(orphan(TTSState))
    /\ UNCHANGED <<domVars, marked, inits>>
    /\ TurnLog
    /\ TTSOnly

\* speechSynthesis.onvoiceschanged, set when no voice was loaded one second
\* after the start: every voiceschanged event calls TTS.init() again
VoicesChanged ==
    /\ inits < MaxInits
    /\ inits' = inits + 1
    /\ CommitTTS(startObserving(TTSState))
    /\ UNCHANGED <<domVars, marked>>
    /\ TurnLog
    /\ TTSOnly

\* Ctrl+Shift+V, or the voice command without an argument
Toggle ==
    /\ CommitTTS(toggle(TTSState, Dom))
    /\ marked' = IF ~enabled /\ streaming = 0 /\ latest.exists THEN TRUE ELSE marked
    /\ Len(pendingText') <= MaxPending
    /\ UNCHANGED <<domVars, inits>>
    /\ TurnLog
    /\ TTSOnly

\* the voice command with an argument: TTS.enabled = !!args[0]
VoiceSet ==
    /\ \E state \in BOOLEAN : CommitTTS([TTSState EXCEPT !.enabled = state])
    /\ UNCHANGED <<domVars, marked, inits>>
    /\ TurnLog
    /\ TTSOnly

\* popstate: TTS.reset()
Popstate ==
    /\ CommitTTS(reset(TTSState))
    /\ UNCHANGED <<domVars, marked, inits>>
    /\ TurnLog
    /\ TTSOnly

NextTTS ==
    \/ StreamStarts
    \/ TextChanges
    \/ StreamEnds
    \/ OtherMutation
    \/ DebounceFires
    \/ OrphanFires
    \/ VoicesChanged
    \/ Toggle
    \/ VoiceSet
    \/ Popstate

(***************************************************************************)
(* DOM lookup: getInputField, getSendButton, getDropZone, getFileInput.    *)
(* An element is named by the place of the selector that resolved it (by   *)
(* its place in the list of querySelectorAll for the file input); the      *)
(* quotes inside the selectors are left out.                               *)
(***************************************************************************)
inputSelectors ==
    <<"[contenteditable=true][data-placeholder]",
      "div[contenteditable=true].ProseMirror",
      "div.ProseMirror[contenteditable=true]",
      "[data-testid=composer-input]",
      "[contenteditable=true]">>

sendSelectors ==
    <<"button[aria-label=Send message]",
      "button[aria-label=Send Message]",
      "button[data-testid=send-button]",
      "button:has(svg[data-icon=arrow-up])",
      "form button[type=submit]",
      "button[type=submit]">>

dropSelectors ==
    <<"[data-drop-target=true]", "[data-testid=drop-zone]", ".drop-zone",
      "form", "main">>

\* querySelector throws on a selector the browser does not support: of the
\* selectors above only :has() is one that browsers have lacked
mayThrow(selector) == selector = "button:has(svg[data-icon=arrow-up])"

\* what a function returns
Null == [kind |-> "null", at |-> 0]
Element(k) == [kind |-> "element", at |-> k]
Body == [kind |-> "body", at |-> 0]

\* the for loop of getInputField from selector k on
RECURSIVE inputFrom(_, _)
inputFrom(a, k) ==
    IF k > Len(inputSelectors) THEN Null
    ELSE IF a[k] # "none" THEN Element(k)
    ELSE inputFrom(a, k + 1)

getInputField(a) == inputFrom(a, 1)

\* the for loop of getSendButton without the test of el.disabled
RECURSIVE sendFrom_AnyButton(_, _)
sendFrom_AnyButton(a, k) ==
    IF k > Len(sendSelectors) THEN Null
    ELSE IF a[k] \in {"enabled", "disabled"} THEN Element(k)
    ELSE sendFrom_AnyButton(a, k + 1)

\* the for loop of getSendButton from selector k on; the catch of the loop
\* body goes on with the next selector
RECURSIVE sendFrom(_, _)
sendFrom(a, k) ==
    IF k > Len(sendSelectors) THEN Null
    ELSE IF a[k] = "enabled" THEN Element(k)
    ELSE sendFrom(a, k + 1)

getSendButton(a) == sendFrom(a, 1)

\* the for loop of getDropZone from selector k on
RECURSIVE dropFrom(_, _)
dropFrom(a, k) ==
    IF k > Len(dropSelectors) THEN Body
    ELSE IF a[k] # "none" THEN Element(k)
    ELSE dropFrom(a, k + 1)

getDropZone(a) == dropFrom(a, 1)

\* the for loop of getFileInput over the inputs from place k on
RECURSIVE fileFrom(_, _)
fileFrom(inputs, k) ==
    IF k > Len(inputs)
    THEN IF Len(inputs) > 0 THEN Element(1) ELSE Null
    ELSE IF inputs[k] # "disabled" THEN Element(k)
    ELSE fileFrom(inputs, k + 1)

getFileInput(inputs) == fileFrom(inputs, 1)

InitLoc ==
    /\ target = ""
    /\ answers = <<>>
    /\ found = Null

\* the functions keep nothing from one call to the next, so a behaviour
\* holds one call
LocOnly ==
    /\ target = ""
    /\ UNCHANGED <<relayVars, pipeVars, flushVars, ttsVars, domVars, langVars>>

LocateInput ==
    /\ \E a \in [1..Len(inputSelectors) -> {"none", "match"}] :
         /\ answers' = a
         /\ found' = getInputField(a)
    /\ target' = "input"
    /\ LocOnly

LocateSend ==
    /\ \E a \in [1..Len(sendSelectors) -> {"none", "enabled", "disabled", "throws"}] :
         /\ \A k \in 1..Len(sendSelectors) :
                a[k] = "throws" => mayThrow(sendSelectors[k])
         /\ answers' = a
         /\ found' = getSendButton(a)
    /\ target' = "send"
    /\ LocOnly

LocateDrop ==
    /\ \E a \in [1..Len(dropSelectors) -> {"none", "match"}] :
         /\ answers' = a
         /\ found' = getDropZone(a)
    /\ target' = "drop"
    /\ LocOnly

LocateFile ==
    /\ \E n \in 0..MaxInputs :
         \E inputs \in [1..n -> {"enabled", "disabled"}] :
             /\ answers' = inputs
             /\ found' = getFileInput(inputs)
    /\ target' = "file"
    /\ LocOnly

NextLoc ==
    \/ LocateInput
    \/ LocateSend
    \/ LocateDrop
    \/ LocateFile

(***************************************************************************)
(* Language detection: TTS_LANGUAGES and the first half of                 *)
(* TTS.pickVoiceForText.  A text is given by the number of matches of each *)
(* language's pattern in it.                                               *)
(***************************************************************************)
TTS_LANGUAGES ==
    <<"German", "French", "Chinese", "Japanese", "Korean", "Arabic",
      "Russian", "English">>
Langs == 1..Len(TTS_LANGUAGES)
isDefault(l) == TTS_LANGUAGES[l] = "English"

\* Array.prototype.filter, on a sequence of places
RECURSIVE filter(_, _)
filter(seq, keep) ==
    IF seq = <<>> THEN <<>>
    ELSE IF Head(seq) \in keep THEN <<Head(seq)>> \o filter(Tail(seq), keep)
    ELSE filter(Tail(seq), keep)

\* nonDefault.reduce((a, b) => a.count > b.count ? a : b), a the accumulator
RECURSIVE reduceTop(_, _, _)
reduceTop(a, seq, c) ==
    IF seq = <<>> THEN a
    ELSE reduceTop(IF c[a] > c[Head(seq)] THEN a ELSE Head(seq), Tail(seq), c)

\* counts.find(l => l.isDefault)
defaultLang == CHOOSE l \in Langs : isDefault(l) /\ \A k \in 1..(l - 1) : ~isDefault(k)

\* pickVoiceForText in which a non-default language wins a tie with the default
pickLanguage_TieWins(c) ==
    LET nonDefault == filter([l \in Langs |-> l],
                             {l \in Langs : ~isDefault(l) /\ c[l] > 0})
    IN  IF nonDefault # <<>>
        THEN LET topNonDefault == reduceTop(Head(nonDefault), Tail(nonDefault), c) IN
             IF c[topNonDefault] >= c[defaultLang] THEN topNonDefault
             ELSE defaultLang
        ELSE defaultLang

\* pickVoiceForText: the language it detects for the counts c
pickLanguage(c) ==
    LET nonDefault == filter([l \in Langs |-> l],
                             {l \in Langs : ~isDefault(l) /\ c[l] > 0})
    IN  IF nonDefault # <<>>
        THEN LET topNonDefault == reduceTop(Head(nonDefault), Tail(nonDefault), c) IN
             IF c[topNonDefault] > c[defaultLang] THEN topNonDefault
             ELSE defaultLang
        ELSE defaultLang

InitLang ==
    /\ counts = [l \in Langs |-> 0]
    /\ detected = 0

\* speak() calls pickVoiceForText for a text; the function keeps nothing
\* from one call to the next, so a behaviour holds one call
PickVoice ==
    /\ detected = 0
    /\ \E c \in [Langs -> 0..MaxCount] :
         /\ counts' = c
         /\ detected' = pickLanguage(c)
    /\ UNCHANGED <<relayVars, pipeVars, flushVars, ttsVars, domVars, locVars>>

NextLang == PickVoice

Init == InitRelay /\ InitPipe /\ InitFlush /\ InitTTS /\ InitLang /\ InitLoc

SpecConn == Init /\ [][NextConn]_vars

SpecLink == Init /\ [][NextLink]_vars

SpecRelay == Init /\ [][NextRelay]_vars

SpecBridge == Init /\ [][NextBridge]_vars

SpecPipe == Init /\ [][NextPipe]_vars

\* the pipeline; the timers of its sleeps fire
SpecPipeLive ==
    Init /\ [][NextPipe]_vars /\ \A i \in 1..MaxEnvelopes : WF_vars(Resume(i))

\* the pipeline, with the record of the envelope before the current one
InitPair ==
    /\ InitRelay /\ InitFlush /\ InitTTS /\ InitLang /\ InitLoc
    /\ messageQueue = <<>>
    /\ isProcessing = FALSE
    /\ workers = <<>>
    /\ autoSend = TRUE
    /\ arrived = 0
    /\ dequeued = <<>>
    /\ pendingAttachments = <<>>
    /\ last = <<>>
    /\ keepLast = TRUE

SpecPair == InitPair /\ [][NextPipe]_vars

SpecTTS == Init /\ [][NextTTS]_vars

\* the speech engine, with the history of the turn
InitTurn ==
    /\ InitRelay /\ InitPipe /\ InitFlush /\ InitLang /\ InitLoc
    /\ enabled = FALSE
    /\ unlocked = FALSE
    /\ lastSpokenLength = 0
    /\ pendingText = <<>>
    /\ speakTimeout = "null"
    /\ lastStreamingElement = 0
    /\ orphans = 0
    /\ inits = 0
    /\ pendingFrom = {}
    /\ said = <<>>
    /\ marked = FALSE
    /\ spoken = <<>>
    /\ steady = FALSE
    /\ keepSpoken = TRUE
    /\ streaming = 0
    /\ progressive = FALSE
    /\ body = 0
    /\ extra = 0
    /\ latest = NoLatest
    /\ turns = 0

SpecTurn == InitTurn /\ [][NextTTS]_vars

SpecFlush == Init /\ [][NextFlush]_vars

SpecLoc == Init /\ [][NextLoc]_vars

SpecLang == Init /\ [][NextLang]_vars


\* the relay left to itself; the timers of setTimeout fire
SpecAutoLive == Init /\ [][NextAuto]_vars /\ WF_vars(TimerFires)

(***************************************************************************)
(* Claims about the relay.                                                 *)
(***************************************************************************)
LiveSockets == {s \in SocketIds : sockets[s].state \in {"connecting", "open"}}
Scheduled == {i \in 1..Len(fx) : fx[i].op = "setTimeout"}

C5_OneLiveSocket == Cardinality(LiveSockets) <= 1

\* C9: each open event resets the failure counter, shows connected and sends
\* the ready acknowledgement once on the socket that opened; ready is sent
\* by no other handler.
C9_ReadyOnOpen ==
    /\ ev.kind = "open" =>
          /\ reconnectAttempts = 0
          /\ badge = "connected"
          /\ fx = <<Fx("send", ev.sock, Ready)>>
    /\ (\E i \in 1..Len(fx) : fx[i].op = "send" /\ fx[i].frame = Ready) =>
          ev.kind = "open"

\* C8: every drop or failed attempt that reconnect() did not cause is
\* followed by a new connection attempt with no user action, as long as the
\* failure counter is below the bound of the model.
C8_EventuallyRetried ==
    \A b \in {0, 1} :
        (owed /\ attemptNo = b) ~> (attemptNo # b \/ reconnectAttempts = MaxAttempts)

\* C8 witness: after four consecutive failures a retry is still owed
C8_Witness == owed /\ failures = 4 /\ ev.kind = "close"

\* C6: a ping is never forwarded to the page (no postMessage, no
\* tabs.sendMessage) and yields exactly one pong, with the ping's ts, on the
\* socket it arrived on.
C6_PingPong ==
    (ev.kind = "message" /\ ev.frame.type = "ping") =>
        fx = <<Fx("send", ev.sock, Pong(ev.frame.ts))>>


(***************************************************************************)
(* Claims about the pipeline.                                              *)
(***************************************************************************)
Has(w, op) == \E k \in 1..Len(w.ops) : w.ops[k].op = op
Count(w, op) == Cardinality({k \in 1..Len(w.ops) : w.ops[k].op = op})
\* the place of the first op of that name in w.ops (0 when there is none)
At(w, op) ==
    IF Has(w, op) THEN CHOOSE k \in 1..Len(w.ops) :
                           /\ w.ops[k].op = op
                           /\ \A j \in 1..(k - 1) : w.ops[j].op # op
    ELSE 0
FileBearing(m) == m.file_data # "none" /\ m.content_type \in FileTypes
Threw1(w) == Has(w, "decode!") \/ Has(w, "inject!")
WorkerSet == {workers[i] : i \in 1..Len(workers)}

\* C1: envelopes are dequeued in their arrival order, one processQueue()
\* call at most works on an envelope at any time, and an envelope is
\* dequeued only when the call that worked on the one before has slept its
\* pause to the end.
C1_OneInFlight ==
    /\ Len(workers) <= 1
    /\ dequeued = [k \in 1..Len(dequeued) |-> k]
    /\ \A w \in WorkerSet : w.msg.id = Len(dequeued)
    /\ \A k \in 1..Len(messageQueue) : messageQueue[k].id = Len(dequeued) + k

C1_DequeueStep ==
    Len(dequeued') > Len(dequeued) =>
        \/ workers = <<>>
        \/ Len(workers) = 1 /\ workers[1].pc = "pause"

C2_NoCaptionNoSend ==
    \A w \in WorkerSet :
        (FileBearing(w.msg) /\ ~w.msg.caption) => ~Has(w, "clickSend")

\* C2 witness: a captionless file has been attached and its processing is over
C2_Witness ==
    \E w \in WorkerSet :
        /\ FileBearing(w.msg) /\ ~w.msg.caption /\ autoSend
        /\ w.pc = "pause" /\ Has(w, "toast:attached")

\* C3 as claimed: with auto-send on, a file-bearing envelope with a caption
\* always triggers exactly one send action.
C3_AlwaysOneSend ==
    \A w \in WorkerSet :
        (autoSend /\ FileBearing(w.msg) /\ w.msg.caption /\ w.pc = "pause")
            => Count(w, "clickSend") = 1

\* C3 as amended: with auto-send on, a file-bearing envelope with a caption
\* whose attach and inject steps do not throw triggers exactly one send
\* action, after the attach, after the caption's injection and after a sleep
\* of attachmentDelay; when one of them throws it triggers none.
C3_OneSendAfterSettle ==
    \A w \in WorkerSet :
        (autoSend /\ FileBearing(w.msg) /\ w.msg.caption) =>
            /\ Count(w, "clickSend") <= 1
            /\ Threw1(w) => ~Has(w, "clickSend")
            /\ (w.pc = "pause" /\ ~Threw1(w)) => Count(w, "clickSend") = 1
            /\ Has(w, "clickSend") =>
                  /\ 0 < At(w, "toast:attached")
                  /\ At(w, "toast:attached") < At(w, "inject")
                  /\ At(w, "inject") < At(w, "clickSend") - 1
                  /\ w.ops[At(w, "clickSend") - 1] = Op("sleep", attachmentDelay)

\* C3 witness: the send of a captioned file has been triggered
C3_Witness ==
    \E w \in WorkerSet :
        /\ autoSend /\ FileBearing(w.msg) /\ w.msg.caption
        /\ w.pc = "pause" /\ Has(w, "click") /\ Has(w, "drop")

\* C7: a failure of one envelope's processing (input not found, attachFile
\* or injectText throwing) is caught for that envelope: the error toast is
\* shown, the pipeline stays in its loop, the queued envelopes keep
\* their order, and the next one is dequeued after the pause.
C7_Caught ==
    \A w \in WorkerSet :
        Threw1(w) =>
            /\ w.pc = "pause"
            /\ isProcessing
            /\ w.ops[Len(w.ops) - 1] = Op("toast:error", 0)
            /\ \A k \in 1..Len(messageQueue) : messageQueue[k].id = w.msg.id + k

C7_NextStep ==
    (/\ Len(workers) = 1 /\ Threw1(workers[1])
     /\ messageQueue # <<>> /\ workers' # workers)
        => /\ Len(workers') = 1
           /\ workers'[1].msg = Head(messageQueue)
           /\ messageQueue' = Tail(messageQueue)

C7_FailureIsPerEnvelope == []C7_Caught /\ [][C7_NextStep]_vars

\* C7 witness: an envelope's processing threw while another one was queued
C7_Witness ==
    \E w \in WorkerSet :
        /\ Threw1(w) /\ w.pc = "pause"
        /\ messageQueue # <<>>

(***************************************************************************)
(* Claims about the speech engine.                                         *)
(***************************************************************************)
\* C10: within one streaming turn (the streaming element stays the one the
\* engine tracks) lastSpokenLength never decreases, whatever page mutation,
\* debounce firing, voice toggle or navigation event occurs.
C10_CursorNeverDecreases ==
    [][(/\ streaming # 0
        /\ streaming' = streaming
        /\ lastStreamingElement = streaming)
          => lastSpokenLength' >= lastSpokenLength]_vars

\* the step enables speech through TTS.toggle
Enables == Toggle /\ enabled'

\* the step is a first observation of a new streaming element by the
\* observer (toggle tracks the element itself when it holds the text)
Detects ==
    /\ enabled'
    /\ streaming' # 0
    /\ lastStreamingElement # streaming'
    /\ lastStreamingElement' = streaming'
    /\ ~(Toggle /\ progressive)

C12_NothingRespoken == marked => said = <<>>

C12_MarkStep ==
    (Enables /\ streaming = 0 /\ latest.exists)
        => lastSpokenLength' = latest.body + latest.extra

C12_EnableMarksRead == []C12_NothingRespoken /\ [][C12_MarkStep]_vars

(***************************************************************************)
(* Claims about language detection.                                        *)
(***************************************************************************)
NonDefaultLangs == {l \in Langs : ~isDefault(l)}
TopCount == CHOOSE n \in 0..MaxCount + 1 :
                /\ \A l \in NonDefaultLangs : counts[l] <= n
                /\ \E l \in NonDefaultLangs : counts[l] = n

\* C13: the default language is detected unless some non-default language
\* has a count strictly greater than the default's; then a non-default
\* language of the highest count is detected; a tie of the top non-default
\* count with the default's count gives the default.
C13_DefaultUnlessBeaten ==
    detected # 0 =>
        IF TopCount > counts[defaultLang]
        THEN ~isDefault(detected) /\ counts[detected] = TopCount
        ELSE isDefault(detected)

\* C13 witness: the top non-default count ties with the default's count
C13_Witness ==
    /\ detected # 0 /\ isDefault(detected)
    /\ counts[defaultLang] > 0 /\ TopCount = counts[defaultLang]

(***************************************************************************)
(* More claims about the pipeline.                                         *)
(***************************************************************************)
AttachOps == {"dragenter", "dragenter!", "dragover", "dragover!", "drop",
              "drop!", "fileInput", "fileInput?", "fileInput!", "decode!"}

\* C14: a text envelope (text or voice_transcribed) from sender S with text
\* T, injected into an empty input with attribution and auto-send on, sets
\* the input to "[S]: T"; exactly one send follows, after a sleep of
\* messageDelay, and nothing is attached.
C14_TextEnvelope ==
    \A w \in WorkerSet :
        (/\ autoSend
         /\ w.msg.content_type \in TextTypes /\ w.msg.file_data = "none"
         /\ Has(w, "inject") /\ w.before = <<>>)
        => /\ w.input = <<"[", w.msg.sender, "]: ", w.msg.text>>
           /\ \A k \in 1..Len(w.ops) : w.ops[k].op \notin AttachOps
           /\ SubSeq(w.ops, 1, 3) = <<Op("inject", 0), Op("toast:message", 0),
                                      Op("sleep", messageDelay)>>
           /\ w.pc \in {"send", "pause"}
           /\ w.pc = "send" => ~Has(w, "clickSend")
           /\ w.pc = "pause" => /\ Count(w, "clickSend") = 1
                                /\ At(w, "clickSend") = 4

\* C14 witness: the text of an envelope has been injected into an empty
\* input and sent
C14_Witness ==
    \E w \in WorkerSet :
        /\ w.msg.content_type = "voice_transcribed"
        /\ w.before = <<>> /\ Has(w, "click") /\ w.pc = "pause"

\* the number of attachFile calls a processQueue() call made for its
\* envelope: each one starts with the decoding, then the first drag event
AttachCalls(w) ==
    Count(w, "decode!") + Count(w, "dragenter") + Count(w, "dragenter!")
InjectCalls(w) == Count(w, "inject") + Count(w, "inject!")

\* w works on a text envelope that came right after a captionless image
ImageThenText(w) ==
    /\ last # <<>>
    /\ last[1].msg.content_type = "image"
    /\ FileBearing(last[1].msg) /\ ~last[1].msg.caption
    /\ w.msg.content_type \in TextTypes
    /\ w.msg.id = last[1].msg.id + 1

Recognised == TextTypes \cup FileTypes

\* C17 as claimed: an envelope whose content_type is not a recognised one
\* is never appended to messageQueue (so none is ever dequeued either).
C17_UnknownNotQueued ==
    /\ \A k \in 1..Len(messageQueue) : messageQueue[k].content_type \in Recognised
    /\ \A w \in WorkerSet : w.msg.content_type \in Recognised

\* C17 as amended: such an envelope is queued and dequeued like any other,
\* and processMessage does nothing for it: no attach, no inject, no send, no
\* toast; only the pause between envelopes follows.
C17_UnknownDoesNothing ==
    \A w \in WorkerSet :
        w.msg.content_type \notin Recognised =>
            /\ w.pc = "pause"
            /\ w.ops = <<Op("sleep", interMessageDelay)>>
            /\ dequeued[Len(dequeued)] = w.msg.id

\* C17 witness: an envelope of unknown content_type was dequeued while
\* another envelope waits behind it
C17_Witness ==
    /\ \E w \in WorkerSet : w.msg.content_type = "sticker"
    /\ messageQueue # <<>>

(***************************************************************************)
(* Claims about the relay and the content scripts' ports.                  *)
(***************************************************************************)
OpenSockets == {s \in SocketIds : sockets[s].state = "open"}

\* C16: a message the content script posts on its port is sent unchanged on
\* the transport socket if and only if the relay is connected (a socket of
\* the relay is open) at that moment; otherwise it is dropped, and no later
\* handler sends it.
C16_ForwardIffOpen ==
    /\ ev.kind = "portMessage" =>
          IF OpenSockets # {}
          THEN \E s \in OpenSockets : fx = <<Fx("send", s, ev.frame)>>
          ELSE fx = <<>>
    /\ ev.kind # "portMessage" =>
          \A i \in 1..Len(fx) : fx[i].frame.type # "ack"

\* C18: when a content script's port attaches, the relay posts on it a
\* status message whose connected flag tells whether the relay is connected
\* (a socket of the relay is open) at that moment; it is the port's first
\* message: every other postMessage goes to a port that attached before.
C18_StatusOnAttach ==
    /\ ev.kind = "portConnect" =>
          fx = <<Fx("postMessage", ev.sock, StatusMsg(OpenSockets # {}))>>
    /\ ev.kind # "portConnect" =>
          \A i \in 1..Len(fx) :
              fx[i].op = "postMessage" => ports[fx[i].target] = "connected"

\* C19: for an inbound message that is no ping and that the relay does not
\* post on a port, the relay looks for a claude.ai tab and delivers the
\* message to it once when there is one; it does nothing else with it.
C19_FallbackDelivery ==
    (/\ ev.kind = "message" /\ ev.frame.type = "message"
     /\ \A i \in 1..Len(fx) : fx[i].op # "postMessage")
        => \/ fx = <<Fx("tabs.query", 0, NoFrame)>>
           \/ fx = <<Fx("tabs.query", 0, NoFrame),
                     Fx("tabs.sendMessage", 0, ev.frame)>>

(***************************************************************************)
(* More claims about the relay's connection.                               *)
(***************************************************************************)
Reconnects == StorageChanged \/ ReconnectRequest
AttemptsIn(f) == {i \in 1..Len(f) : f[i].op \in {"new", "newThrows"}}

\* C21: reconnect() called while a socket is live (connecting or open)
\* leaves that socket closing with its close and error handlers detached,
\* sets the failure counter to 0 and makes exactly one connection attempt
\* (a throwing new WebSocket() then counts as the first failure); the close
\* or error event of a socket whose handlers are detached schedules no
\* reconnect and changes neither the failure counter nor ws.
C21_ReconnectTearsDown ==
    [][/\ Reconnects =>
             /\ \A s \in LiveSockets :
                    sockets'[s] = [state |-> "closing", hooked |-> FALSE]
             /\ Cardinality(AttemptsIn(fx')) = 1
             /\ reconnectAttempts' = IF serverUrlOk' THEN 0 ELSE 1
             /\ ~serverUrlOk' =>
                    \E i \in 1..Len(fx') :
                        fx'[i] = Fx("setTimeout", reconnectDelay, NoFrame)
       /\ \A s \in SocketIds :
             (SocketCloses(s) /\ ~sockets[s].hooked)
                 => UNCHANGED <<ws, reconnectAttempts, timers>>]_vars

(***************************************************************************)
(* Claims about attachment accumulation.                                   *)
(***************************************************************************)
\* C22: flushAttachments attaches every pending attachment exactly once, in
\* arrival order; the count a call returns is the number of attachments it
\* attached; no attachment is cleared from the collection without having
\* been attached; also when accumulateAttachment or a second
\* flushAttachments is called while a call of flushAttachments sleeps.
C22_FlushExactlyOnce ==
    /\ \A j, k \in 1..Len(attachedLog) : j < k => attachedLog[j] < attachedLog[k]
    /\ \A k \in 1..Len(returns) :
          ~returns[k].threw => returns[k].count = returns[k].n
    /\ lost = {}

(***************************************************************************)
(* Claims about attachFile.                                                *)
(***************************************************************************)
FileInputOps == {"fileInput", "fileInput?", "fileInput!"}
\* what Method 1 can have done when Method 2 starts
DropSequences ==
    {<<Op("dragenter!", 0)>>,
     <<Op("dragenter", 0), Op("sleep", dragDelay), Op("dragover!", 0)>>,
     <<Op("dragenter", 0), Op("sleep", dragDelay), Op("dragover", 0),
       Op("sleep", dragDelay), Op("drop", 0)>>,
     <<Op("dragenter", 0), Op("sleep", dragDelay), Op("dragover", 0),
       Op("sleep", dragDelay), Op("drop!", 0)>>}
FileInputAt(w) ==
    IF \E k \in 1..Len(w.ops) : w.ops[k].op \in FileInputOps
    THEN CHOOSE k \in 1..Len(w.ops) : w.ops[k].op \in FileInputOps
    ELSE 0

\* C23: an attachFile call whose payload decodes tries the drop sequence
\* (dragenter, dragover, drop, in that order), then the file input, whether
\* the drop sequence came to its end or threw; an exception of either does
\* not leave attachFile (the call returns and processMessage goes on); a
\* payload that does not decode throws out of attachFile before any of them.
C23_BothStrategies ==
    \A w \in WorkerSet :
        FileBearing(w.msg) =>
            /\ w.msg.file_data = "bad" =>
                  w.ops = <<Op("decode!", 0), Op("toast:error", 0),
                            Op("sleep", interMessageDelay)>>
            /\ w.msg.file_data = "ok" =>
                  /\ ~Has(w, "decode!")
                  /\ w.pc \in {"dragover", "drop"} =>
                        /\ FileInputAt(w) = 0
                        /\ \E d \in DropSequences :
                               /\ Len(w.ops) < Len(d)
                               /\ w.ops = SubSeq(d, 1, Len(w.ops))
                  /\ w.pc \notin {"dragover", "drop"} =>
                        /\ Cardinality({k \in 1..Len(w.ops) :
                                           w.ops[k].op \in FileInputOps}) = 1
                        /\ SubSeq(w.ops, 1, FileInputAt(w) - 1) \in DropSequences
                        /\ w.ops[FileInputAt(w) + 1] = Op("sleep", attachSettleDelay)
                  /\ w.pc \notin {"dragover", "drop", "settle"} =>
                        w.ops[FileInputAt(w) + 2] = Op("toast:attached", 0)

\* C23 witness: the drop sequence threw at dragover, the file input threw
\* too, and attachFile returned
C23_Witness ==
    \E w \in WorkerSet :
        /\ Has(w, "dragover!") /\ Has(w, "fileInput!")
        /\ Has(w, "toast:attached")

(***************************************************************************)
(* Claims about the DOM lookup.                                            *)
(***************************************************************************)
\* the answers of the page that give a usable element, for the function
\* called
Usable == IF target = "input" \/ target = "drop" THEN {"match"} ELSE {"enabled"}
\* the earliest place whose answer is usable (0 when there is none)
Earliest ==
    IF \E k \in 1..Len(answers) : answers[k] \in Usable
    THEN CHOOSE k \in 1..Len(answers) :
             /\ answers[k] \in Usable
             /\ \A j \in 1..(k - 1) : answers[j] \notin Usable
    ELSE 0

\* C24 as claimed: each of the four functions returns the element of the
\* earliest predicate that gives a usable element (not disabled, for the
\* send control), skipping a predicate that throws, and null when there is
\* none.
C24_FirstUsableOrNull ==
    target # "" =>
        found = IF Earliest # 0 THEN Element(Earliest) ELSE Null

\* C24 as amended: the text input and the send control are as claimed (the
\* send control's element must not be disabled, and a selector that throws
\* is skipped); the drop target is the element of the earliest selector
\* that matches and document.body, never null, when none matches; the file
\* input is the first input[type=file] that is not disabled, the first
\* input[type=file] when all are disabled, and null only when the page has
\* none.
C24_Locate ==
    /\ target \in {"input", "send"} =>
          found = IF Earliest # 0 THEN Element(Earliest) ELSE Null
    /\ target = "drop" =>
          found = IF Earliest # 0 THEN Element(Earliest) ELSE Body
    /\ target = "file" =>
          found = IF Earliest # 0 THEN Element(Earliest)
                  ELSE IF Len(answers) > 0 THEN Element(1) ELSE Null

\* C24 witness: the send control's :has() selector threw, a disabled button
\* came before it, and the element of a later selector was returned
C24_Witness ==
    /\ target = "send"
    /\ \E k \in 1..Len(answers) : answers[k] = "throws" /\ k < found.at
    /\ \E k \in 1..Len(answers) : answers[k] = "disabled" /\ k < found.at
    /\ found.kind = "element"

(***************************************************************************)
(* More claims about the speech engine.                                    *)
(***************************************************************************)
\* the number of debounce timers that are armed
Armed == orphans + (IF speakTimeout = "armed" THEN 1 ELSE 0)

\* C25: when the enabled engine first observes a new streaming element,
\* the pending buffer is cleared and no debounce timer armed before stays
\* armed (the buffer then holds the text extracted from the new element,
\* and a timer is armed only for that text); as long as the engine tracks
\* that element the buffer, hence what is given to speech synthesis, holds
\* text of that element only.
C25_OnlyNewTurn ==
    (enabled /\ streaming # 0 /\ lastStreamingElement = streaming)
        => pendingFrom \subseteq {streaming}

C25_DetectStep ==
    Detects =>
        /\ pendingText' = IF progressive' THEN Text(body') ELSE <<>>
        /\ pendingFrom' \subseteq {streaming'}
        /\ orphans' = 0
        /\ speakTimeout' = IF pendingText' # <<>> THEN "armed" ELSE "null"

C25_NewTurnStartsClean == []C25_OnlyNewTurn /\ [][C25_DetectStep]_vars

\* C26: at most one debounce timer is armed at any time; text is appended
\* to the pending buffer only with the timer armed anew; text is given to
\* speech synthesis only by a timer that fires, and the pending buffer is
\* empty right after.
C26_OneTimer == Armed <= 1

C26_TimerStep ==
    /\ (pendingText' # <<>> /\ pendingText' # pendingText)
           => speakTimeout' = "armed"
    /\ (said' # <<>> /\ ~UNCHANGED ttsVars) =>
           /\ DebounceFires \/ OrphanFires
           /\ pendingText' = <<>>

C26_OneDebounceTimer == []C26_OneTimer /\ [][C26_TimerStep]_vars

\* C27: no response text is given to speech synthesis while unlocked is
\* false; unlocked is set only by TTS.toggle (the keyboard shortcut, the
\* voice command without an argument), not by the voice command that sets
\* enabled nor by any other event, and it is never cleared.
C27_Locked == ~unlocked => said = <<>>

C27_UnlockStep == unlocked' # unlocked => (Toggle /\ unlocked')

C27_UnlockedByToggleOnly == []C27_Locked /\ [][C27_UnlockStep]_vars

\* C27 witness: speech was enabled by the voice command, text was buffered
\* and its debounce timer fired, and nothing was spoken
C27_Witness ==
    /\ enabled /\ ~unlocked
    /\ speakTimeout = "fired" /\ lastSpokenLength > 0
    /\ pendingText = <<>> /\ said = <<>>

(***************************************************************************)
(* A claim about the pipeline's progress.                                  *)
(***************************************************************************)
\* the n-th envelope has been dequeued and its processing is over
Processed(n) ==
    /\ Len(dequeued) >= n
    /\ \A w \in WorkerSet : w.msg.id = n => w.pc = "pause"

\* C28: whenever the pipeline is idle (isProcessing false, no processQueue()
\* call suspended) the queue is empty, and every envelope appended to the
\* queue is eventually dequeued and processed, at whatever point of a
\* running processQueue() call it arrived.
C28_IdleMeansEmpty ==
    /\ isProcessing <=> workers # <<>>
    /\ ~isProcessing => messageQueue = <<>>

C28_NeverStranded ==
    /\ []C28_IdleMeansEmpty
    /\ \A n \in 1..MaxEnvelopes : (arrived >= n) ~> Processed(n)

\* C28 witness: an envelope waits in the queue while the processQueue()
\* call sleeps the pause after the envelope before it, its last sleep
C28_Witness ==
    /\ Len(workers) = 1 /\ workers[1].pc = "pause"
    /\ Len(messageQueue) = 1 /\ arrived = MaxEnvelopes

(***************************************************************************)
(* Claims about the reconnect timers and the content scripts' ports.       *)
(***************************************************************************)
\* C29: at most one reconnect timer (setTimeout(connect, delay)) is pending
\* at any time; a timer that fires starts a connection attempt only when a
\* failure of the current sequence is still unanswered (a timer left from
\* before a reconnect() or an open starts none).
C29_OneTimer == Len(timers) <= 1

C29_TimerStep == (TimerFires /\ AttemptsIn(fx') # {}) => owed

C29_OneReconnectTimer == []C29_OneTimer /\ [][C29_TimerStep]_vars

\* C30: contentScriptPort is not null while a port that attached is still
\* connected on both ends, and an envelope from the server then goes to a
\* port, not to the tabs fallback.
C30_PortKept ==
    /\ (\E p \in PortIds : ports[p] = "connected") => contentScriptPort # 0
    /\ (/\ ev.kind = "message" /\ ev.frame.type = "message"
        /\ \E i \in 1..Len(fx) : fx[i].op = "tabs.query")
           => \A p \in PortIds : ports[p] # "connected"

(***************************************************************************)
(* Claims about what is spoken.                                            *)
(***************************************************************************)
\* C32: while enabled is false no response text is given to speech
\* synthesis, whether speech was disabled by the keyboard toggle, by the
\* voice command without an argument or by the voice command that sets
\* enabled: text buffered before is not spoken by a debounce timer that
\* fires afterwards.
C32_SilentWhileDisabled ==
    [][(~enabled /\ ~enabled' /\ ~UNCHANGED ttsVars) => said' = <<>>]_vars

\* C31: while speech stays enabled and unlocked throughout one streaming
\* turn whose extracted text only grows by appending, the texts given to
\* speech synthesis for that turn, concatenated, followed by the pending
\* buffer are the first lastSpokenLength characters of the extracted text:
\* no character is given twice and none is skipped.
C31_ExactlyOnce ==
    steady =>
        /\ lastSpokenLength <= (IF streaming # 0 THEN body ELSE latest.body)
        /\ spoken \o pendingText = Text(lastSpokenLength)

=============================================================================
